---- MODULE Spec2Model ----
\* CanvasSaver: the Express server (server.js) and the browser client
\* (public script).  Three state machines over one set of variables:
\*   Spec         the download job, the SSE progress channels and the HTTP
\*                clients that drive them (any request, any order);
\*   SpecCatalog  the catalog build behind GET /api/courses;
\*   SpecClient   one browser page driving one download against the server.
EXTENDS Integers, Sequences, FiniteSets, TLC

VARIABLES
    sseClients,   \* server.js:36   Map downloadId -> registered SSE response (0 = no entry)
    conn,         \* the GET /download/events connections
    job,          \* the POST /download handler instances
    wire,         \* every event written to an SSE response, in write order
    build,        \* the catalog build (GET /api/courses)
    ui            \* the browser page: buttons, status line, pending fetch

vars == <<sseClients, conn, job, wire, build, ui>>

\* ---------------------------------------------------------------- bounds
MaxUnits == 2     \* most (category, course) pairs in one selection
MaxPages == 2     \* most enrollment pages the upstream serves
MaxPerPage == 2   \* most enrollment records in one page
MaxLoads == 2     \* most catalog requests of the page in flight at once

\* ------------------------------------------------------------ small sets
JobIds == {"a", "b"}
NoId == "none"                \* req.query.downloadId undefined
Conns == {1, 2}
Reqs == {1}
Courses == {1, 2}
Categories == <<"modules", "syllabus", "pages", "submissions">>
Outcomes == {"ok", "neterr", "errbody"}
  \* what one upstream call can do: answer as expected; reject (network
  \* error); answer a non-success status whose JSON body is an error object

\* ------------------------------------------------- the upstream LMS content
\* names are sequences of characters so that replace() can be modelled
MkItem(type, cid, name) == [type |-> type, content_id |-> cid, name |-> name]
MkGroup(name, sub, items) == [name |-> name, sub |-> sub, items |-> items]

Content(c, course) ==
    IF c = "modules" THEN
        IF course = 1
        THEN << MkGroup(<<"U","/","1">>, "none",
                   << MkItem("File", 7, <<"a","\\","b">>), MkItem("Page", 0, <<"p">>) >>),
                MkGroup(<<"W">>, "none", << MkItem("File", 8, <<"c">>) >>) >>
        ELSE << MkGroup(<<"V">>, "none", << MkItem("File", 0, <<"x">>) >>) >>
    ELSE IF c = "syllabus" THEN
        IF course = 1
        THEN << MkGroup(<<>>, "none", << MkItem("att", 0, <<"s","/","1">>), MkItem("att", 0, <<"s","2">>) >>) >>
        ELSE << MkGroup(<<>>, "none", <<>>) >>
    ELSE IF c = "pages" THEN
        IF course = 1
        THEN << MkGroup(<<"P","\\","1">>, "list", << MkItem("att", 0, <<"q","/","r">>) >>),
                MkGroup(<<"P","2">>, "list", <<>>) >>
        ELSE << MkGroup(<<"Q">>, "list", << MkItem("att", 0, <<"t">>) >>) >>
    ELSE
        IF course = 1
        THEN << MkGroup(<<"H","/","W">>, "list", << MkItem("att", 0, <<"e","\\","f">>) >>),
                MkGroup(<<"L">>, "nosub", <<>>) >>
        ELSE <<>>

\* what the upstream holds of a listing beyond the page it answers first (the
\* page its Link header names rel="next"): the handler takes the body of the
\* one response it awaits, so these groups are in no state of the job
MoreContent(c, course) ==
    IF c = "modules" /\ course = 2
    THEN << MkGroup(<<"X">>, "none", << MkItem("File", 9, <<"y">>) >>) >>
    ELSE IF c = "pages" /\ course = 1
    THEN << MkGroup(<<"P","3">>, "list", << MkItem("att", 0, <<"z">>) >>) >>
    ELSE <<>>

\* ------------------------------------------------------------ selections
RECURSIVE SeqsUpTo(_, _)
SeqsUpTo(S, n) ==
    IF n = 0 THEN {<<>>}
    ELSE LET shorter == SeqsUpTo(S, n - 1)
         IN  shorter \cup {Append(s, x) : s \in {t \in shorter : Len(t) = n - 1}, x \in S}

Total(sel) ==
    Len(sel.modules) + Len(sel.syllabus) + Len(sel.pages) + Len(sel.submissions)

Selections ==
    {sel \in [modules : SeqsUpTo(Courses, MaxUnits), syllabus : SeqsUpTo(Courses, MaxUnits),
              pages : SeqsUpTo(Courses, MaxUnits), submissions : SeqsUpTo(Courses, MaxUnits)] :
        Total(sel) <= MaxUnits}

EmptySel == [modules |-> <<>>, syllabus |-> <<>>, pages |-> <<>>, submissions |-> <<>>]

Tag(c, s) == [k \in DOMAIN s |-> [cat |-> c, course |-> s[k]]]

\* a handler whose pages loop comes before its modules loop
UnitsPagesFirst(sel) ==
    Tag("pages", sel.pages) \o Tag("modules", sel.modules)
        \o Tag("syllabus", sel.syllabus) \o Tag("submissions", sel.submissions)

\* the four for-loops of the handler, in source order
Units(sel) ==
    Tag("modules", sel.modules) \o Tag("syllabus", sel.syllabus)
        \o Tag("pages", sel.pages) \o Tag("submissions", sel.submissions)

\* ------------------------------------------------------------ pure helpers
\* String.prototype.replace(/[\/\\]/g, "_")
SafeName(s) == [k \in DOMAIN s |-> IF s[k] \in {"/", "\\"} THEN "_" ELSE s[k]]

CourseTok(course) == IF course = 1 THEN "1" ELSE "2"

\* the `name` option of archive.append, one template per category
EntryName(c, course, grp, item) ==
    IF c = "modules" THEN
        <<CourseTok(course), "/", "Modules", "/">> \o SafeName(grp.name) \o <<"/">> \o item.name
    ELSE IF c = "syllabus" THEN
        <<CourseTok(course), "/", "Syllabus", "/">> \o item.name
    ELSE IF c = "pages" THEN
        <<CourseTok(course), "/", "Pages", "/">> \o SafeName(grp.name) \o <<"/">> \o item.name
    ELSE
        <<CourseTok(course), "/", "Submissions", "/">> \o grp.name \o <<"/">> \o item.name

\* pages and submissions make one more listing call per page / assignment
NeedsSub(c) == c \in {"pages", "submissions"}

\* modules resolve a file through its metadata first
NeedsMeta(c) == c = "modules"

\* if (item.type === "File" && item.content_id)
Exportable(c, item) == c = "modules" => (item.type = "File" /\ item.content_id # 0)

\* whether the awaited call's outcome makes the handler's promise reject
Throws(step, c, outcome) ==
    IF outcome = "neterr" THEN TRUE              \* fetch() rejects
    ELSE IF outcome = "ok" THEN FALSE
    ELSE IF step = "listing" THEN TRUE           \* for (.. of <object>) is a TypeError
    ELSE IF step = "sub" THEN c = "pages"        \* atts not iterable; subs[0]?.attachments is undefined
    ELSE IF step = "meta" THEN TRUE              \* fetch(meta.url) with url undefined rejects
    ELSE FALSE                                   \* .then(r => r.body): the error body is the stream

\* the next await of the unit at or after item i of group g, or the unit's end
RECURSIVE Scan(_, _, _, _), EnterGroup(_, _, _)
Scan(c, groups, g, i) ==
    IF g > Len(groups) THEN [pc |-> "unitdone", g |-> 0, i |-> 0]
    ELSE IF i > Len(groups[g].items) THEN EnterGroup(c, groups, g + 1)
    ELSE IF Exportable(c, groups[g].items[i])
         THEN [pc |-> IF NeedsMeta(c) THEN "meta" ELSE "stream", g |-> g, i |-> i]
         ELSE Scan(c, groups, g, i + 1)
EnterGroup(c, groups, g) ==
    IF g > Len(groups) THEN [pc |-> "unitdone", g |-> 0, i |-> 0]
    ELSE IF NeedsSub(c) THEN [pc |-> "sub", g |-> g, i |-> 0]
    ELSE Scan(c, groups, g, 1)

\* ------------------------------------------------------------ initial state
IdleJob ==
    [pc |-> "unused", id |-> NoId, sel |-> EmptySel, total |-> 0, done |-> 0,
     u |-> 0, g |-> 0, i |-> 0, nfetch |-> 0, archive |-> <<>>, status |-> 0,
     chan |-> 0,
     aborted |-> FALSE, resClosed |-> FALSE, threwAt |-> "none"]

IdleConn == [st |-> "unused", id |-> NoId, cclosed |-> FALSE]

IdleBuild ==
    [pc |-> "idle", pages |-> <<>>, url |-> 0, enrollments |-> <<>>, uniqueIds |-> <<>>,
     k |-> 0, courses |-> <<>>, metaFetches |-> <<>>, metaStatus |-> <<>>,
     warned |-> <<>>, resp |-> 0]

IdleUi ==
    [downloadBtnDisabled |-> FALSE, cancelBtnDisabled |-> TRUE, statusP |-> "found",
     fetching |-> FALSE, alerted |-> FALSE, cancelEarly |-> FALSE, loads |-> 0]

InitDownload ==
    /\ sseClients = [id \in JobIds |-> 0]
    /\ conn = [c \in Conns |-> IdleConn]
    /\ job = [r \in Reqs |-> IdleJob]
    /\ wire = <<>>
    /\ ui = IdleUi


\* ------------------------------------------------------ the progress channel
\* a client opens GET /download/events?downloadId=id (the request is in flight)
SendEvents(c, id) ==
    /\ conn[c].st = "unused"
    /\ \A b \in Conns : b < c => conn[b].st # "unused"
    /\ conn' = [conn EXCEPT ![c] = [@ EXCEPT !.st = "sent", !.id = id]]
    /\ UNCHANGED <<sseClients, job, wire, build, ui>>

\* app.get("/download/events")
EventsGet(c) ==
    /\ conn[c].st = "sent"
    /\ IF conn[c].id = NoId
       THEN /\ conn' = [conn EXCEPT ![c].st = "rejected"]
            /\ UNCHANGED sseClients
       ELSE /\ conn' = [conn EXCEPT ![c].st = "open"]
            /\ sseClients' = [sseClients EXCEPT ![conn[c].id] = c]
    /\ UNCHANGED <<job, wire, build, ui>>

\* the client side closes its EventSource (evtSource.close())
ClientCloseEvents(c) ==
    /\ conn[c].st = "open"
    /\ ~conn[c].cclosed
    /\ conn' = [conn EXCEPT ![c].cclosed = TRUE]
    /\ UNCHANGED <<sseClients, job, wire, build, ui>>

\* a close handler that leaves the registry alone
EventsCloseKeeps(c) ==
    /\ conn[c].st \in {"open", "ended"}
    /\ conn[c].cclosed \/ conn[c].st = "ended"
    /\ conn' = [conn EXCEPT ![c].st = "closed"]
    /\ UNCHANGED <<sseClients, job, wire, build, ui>>

\* req.on("close", () => sseClients.delete(downloadId))
EventsClose(c) ==
    /\ conn[c].st \in {"open", "ended"}
    /\ conn[c].cclosed \/ conn[c].st = "ended"
    /\ conn' = [conn EXCEPT ![c].st = "closed"]
    /\ sseClients' = [sseClients EXCEPT ![conn[c].id] = 0]
    /\ UNCHANGED <<job, wire, build, ui>>

\* a sendProgress that writes to whichever channel is registered
sendProgressAnyChannel(r, id, done, total, message) ==
    LET open == {i \in JobIds : sseClients[i] # 0}
    IN  IF open = {} THEN wire
        ELSE Append(wire, [type |-> "progress",
                           conn |-> sseClients[CHOOSE i \in open : i # id \/ open = {id}],
                           job |-> r, done |-> done, total |-> total, message |-> message])

\* sendProgress called before done++ took effect
sendProgressStale(r, id, done, total, message) ==
    LET client == sseClients[id]
    IN  IF client = 0 THEN wire
        ELSE Append(wire, [type |-> "progress", conn |-> client, job |-> r,
                           done |-> done - 1, total |-> total, message |-> message])

\* function sendProgress(id, done, total, message): the log after the call
sendProgress(r, id, done, total, message) ==
    LET client == sseClients[id]
    IN  IF client = 0 THEN wire
        ELSE Append(wire, [type |-> "progress", conn |-> client, job |-> r,
                           done |-> done, total |-> total, message |-> message])

\* ------------------------------------------------------ the download handler
\* a client issues POST /download?downloadId=id with body {selections}
SendDownload(r, id, sel) ==
    /\ job[r].pc = "unused"
    /\ job' = [job EXCEPT ![r] = [@ EXCEPT !.pc = "sent", !.id = id, !.sel = sel]]
    /\ UNCHANGED <<sseClients, conn, wire, build, ui>>

\* the validation without its sseClients.has(downloadId) half
ValidDownloadIdNoHas(id) == id # NoId

\* if (!downloadId || !sseClients.has(downloadId)) return 400
ValidDownloadId(id) == id # NoId /\ sseClients[id] # 0

\* a handler that answers 400 to a selection of zero pairs
PostDownloadRejectsEmpty(r) ==
    /\ job[r].pc = "sent"
    /\ LET j == job[r]
           n == Total(j.sel)
       IN  job' = [job EXCEPT ![r] =
               IF ~ValidDownloadId(j.id) \/ n = 0
               THEN [j EXCEPT !.pc = "rejected", !.status = 400]
               ELSE [j EXCEPT !.pc = "listing", !.status = 200, !.total = n,
                              !.chan = sseClients[j.id], !.u = 1, !.nfetch = 1]]
    /\ UNCHANGED <<sseClients, conn, wire, build, ui>>

\* app.post("/download") up to its first await
PostDownload(r) ==
    /\ job[r].pc = "sent"
    /\ LET j == job[r]
           n == Total(j.sel)
       IN  job' = [job EXCEPT ![r] =
               IF ~ValidDownloadId(j.id)
               THEN [j EXCEPT !.pc = "rejected", !.status = 400]
               ELSE IF n = 0
               THEN [j EXCEPT !.pc = "finalized", !.status = 200, !.total = n,
                              !.chan = sseClients[j.id]]
               ELSE [j EXCEPT !.pc = "listing", !.status = 200, !.total = n,
                              !.chan = sseClients[j.id], !.u = 1, !.nfetch = 1]]
    /\ UNCHANGED <<sseClients, conn, wire, build, ui>>

CurUnit(j) == Units(j.sel)[j.u]
CurGroups(j) == Content(CurUnit(j).cat, CurUnit(j).course)

\* a handler that finalizes the archive when its first unit ends
ContinueFinalizesEarly(r, j, scan) ==
    IF scan.pc # "unitdone"
    THEN /\ job' = [job EXCEPT ![r] =
                [j EXCEPT !.pc = scan.pc, !.g = scan.g, !.i = scan.i, !.nfetch = @ + 1]]
         /\ wire' = wire
    ELSE /\ wire' = sendProgress(r, j.id, j.done + 1, j.total, CurUnit(j))
         /\ job' = [job EXCEPT ![r] =
                [j EXCEPT !.done = @ + 1, !.pc = "finalized", !.g = 0, !.i = 0]]

\* the rest of the turn after an await resolved: either the next upstream call
\* of the unit is issued, or the unit ends (done++, sendProgress) and the next
\* unit's listing call is issued, or after the last unit archive.finalize()
Continue(r, j, scan) ==
    IF scan.pc # "unitdone"
    THEN /\ job' = [job EXCEPT ![r] =
                [j EXCEPT !.pc = scan.pc, !.g = scan.g, !.i = scan.i, !.nfetch = @ + 1]]
         /\ wire' = wire
    ELSE /\ wire' = sendProgress(r, j.id, j.done + 1, j.total, CurUnit(j))
         /\ job' = [job EXCEPT ![r] =
                IF j.u < Len(Units(j.sel))
                THEN [j EXCEPT !.done = @ + 1, !.u = @ + 1, !.pc = "listing",
                               !.g = 0, !.i = 0, !.nfetch = @ + 1]
                ELSE [j EXCEPT !.done = @ + 1, !.pc = "finalized", !.g = 0, !.i = 0]]

\* the handler's promise rejects: nothing catches it
Reject(r, j, step) ==
    /\ job' = [job EXCEPT ![r] = [j EXCEPT !.pc = "threw", !.threwAt = step]]
    /\ wire' = wire

\* the unit's top-level listing call answers (await fetch, await .json())
ListingResponse(r, o) ==
    /\ job[r].pc = "listing"
    /\ LET j == job[r]
           c == CurUnit(j).cat
       IN  IF Throws("listing", c, o)
           THEN Reject(r, j, "listing")
           ELSE Continue(r, j, EnterGroup(c, CurGroups(j), 1))
    /\ UNCHANGED <<sseClients, conn, build, ui>>

\* a page's attachment list / an assignment's submission answers
SubResponse(r, o) ==
    /\ job[r].pc = "sub"
    /\ LET j == job[r]
           c == CurUnit(j).cat
           grp == CurGroups(j)[j.g]
       IN  IF Throws("sub", c, o)
           THEN Reject(r, j, "sub")
           ELSE IF c = "submissions" /\ (o = "errbody" \/ grp.sub = "nosub")
           THEN Continue(r, j, EnterGroup(c, CurGroups(j), j.g + 1))
           ELSE Continue(r, j, Scan(c, CurGroups(j), j.g, 1))
    /\ UNCHANGED <<sseClients, conn, build, ui>>

\* a file's metadata answers; fetch(meta.url) is issued
MetaResponse(r, o) ==
    /\ job[r].pc = "meta"
    /\ LET j == job[r]
       IN  IF Throws("meta", CurUnit(j).cat, o)
           THEN Reject(r, j, "meta")
           ELSE /\ job' = [job EXCEPT ![r] = [j EXCEPT !.pc = "stream", !.nfetch = @ + 1]]
                /\ wire' = wire
    /\ UNCHANGED <<sseClients, conn, build, ui>>

\* a byte stream answers; archive.append(stream, {name})
StreamResponse(r, o) ==
    /\ job[r].pc = "stream"
    /\ LET j == job[r]
           u == CurUnit(j)
           grp == CurGroups(j)[j.g]
           name == EntryName(u.cat, u.course, grp, grp.items[j.i])
       IN  IF Throws("stream", u.cat, o)
           THEN Reject(r, j, "stream")
           ELSE Continue(r, [j EXCEPT !.archive = Append(@, name)],
                         Scan(u.cat, CurGroups(j), j.g, j.i + 1))
    /\ UNCHANGED <<sseClients, conn, build, ui>>

\* archive.on("end", ...): the finalized archive has been read to its end by
\* the response it is piped to
ArchiveEnd(r) ==
    /\ job[r].pc = "finalized"
    /\ ~job[r].resClosed
    /\ LET client == sseClients[job[r].id]
       IN  IF client # 0
           THEN /\ wire' = Append(wire, [type |-> "done", conn |-> client, job |-> r,
                                         done |-> job[r].done, total |-> job[r].total,
                                         message |-> [cat |-> "none", course |-> 0]])
                /\ conn' = [conn EXCEPT ![client].st = "ended"]
                /\ sseClients' = [sseClients EXCEPT ![job[r].id] = 0]
           ELSE UNCHANGED <<wire, conn, sseClients>>
    /\ job' = [job EXCEPT ![r].pc = "ended"]
    /\ UNCHANGED <<build, ui>>

Active == {"listing", "sub", "meta", "stream", "finalized"}

\* the client aborts the download connection (controller.abort())
ClientAbort(r) ==
    /\ job[r].pc \in Active
    /\ ~job[r].aborted
    /\ job' = [job EXCEPT ![r].aborted = TRUE]
    /\ UNCHANGED <<sseClients, conn, wire, build, ui>>

\* the server side of the aborted connection closes: res emits "close" and
\* archive.pipe(res) unpipes, which leaves the archive stream paused
ResClose(r) ==
    /\ job[r].aborted
    /\ ~job[r].resClosed
    /\ job' = [job EXCEPT ![r].resClosed = TRUE]
    /\ UNCHANGED <<sseClients, conn, wire, build, ui>>

Init == InitDownload /\ build = IdleBuild

Next ==
    \/ \E c \in {1}, id \in {"a", NoId} : SendEvents(c, id)
    \/ \E c \in {1} : EventsGet(c)
    \/ \E c \in {1} : ClientCloseEvents(c)
    \/ \E c \in {1} : EventsClose(c)
    \/ \E r \in Reqs, id \in JobIds \cup {NoId}, sel \in Selections : SendDownload(r, id, sel)
    \/ \E r \in Reqs : PostDownload(r)
    \/ \E r \in Reqs, o \in Outcomes : ListingResponse(r, o)
    \/ \E r \in Reqs, o \in Outcomes : SubResponse(r, o)
    \/ \E r \in Reqs, o \in Outcomes : MetaResponse(r, o)
    \/ \E r \in Reqs, o \in Outcomes : StreamResponse(r, o)
    \/ \E r \in Reqs : ArchiveEnd(r)
    \/ \E r \in Reqs : ClientAbort(r)
    \/ \E r \in Reqs : ResClose(r)

Spec == Init /\ [][Next]_vars

\* ================================================= the browser client
\* what the checkboxes can give: each list in table row order, no id twice
ClientSelections ==
    {sel \in Selections :
        \A n \in DOMAIN Categories :
            LET ids == sel[Categories[n]]
            IN  \A k \in DOMAIN ids : k > 1 => ids[k - 1] < ids[k]}

\* downloadBtn.onclick up to the end of its synchronous part: the EventSource
\* and the POST are both created, neither has reached the server
ClientDownload(sel) ==
    /\ ~ui.downloadBtnDisabled
    /\ job[1].pc = "unused" /\ conn[1].st = "unused"
    /\ IF Total(sel) = 0
       THEN /\ ui' = [ui EXCEPT !.alerted = TRUE]
            /\ UNCHANGED <<conn, job>>
       ELSE /\ ui' = [ui EXCEPT !.downloadBtnDisabled = TRUE, !.cancelBtnDisabled = FALSE,
                                !.statusP = "preparing", !.fetching = TRUE]
            /\ conn' = [conn EXCEPT ![1] = [@ EXCEPT !.st = "sent", !.id = "a"]]
            /\ job' = [job EXCEPT ![1] = [@ EXCEPT !.pc = "sent", !.id = "a", !.sel = sel]]
    /\ UNCHANGED <<sseClients, wire, build>>

\* .finally(): buttons reset, evtSource?.close()
Settle(u, text) ==
    /\ ui' = [u EXCEPT !.downloadBtnDisabled = FALSE, !.cancelBtnDisabled = TRUE,
                       !.statusP = text, !.fetching = FALSE]
    /\ conn' = [conn EXCEPT ![1].cclosed = TRUE]

\* cancelBtn.onclick: controller.abort() rejects the pending fetch with an
\* AbortError; .catch() and .finally() run
ClientCancel ==
    /\ ~ui.cancelBtnDisabled
    /\ ui.fetching
    /\ Settle([ui EXCEPT !.cancelEarly = job[1].pc \in Active \ {"finalized"}], "canceled")
    /\ job' = [job EXCEPT ![1].aborted = TRUE]
    /\ UNCHANGED <<sseClients, wire, build>>

\* the POST's response settles the fetch chain: 400 throws in the first
\* .then(); a 200 body read to its end is saved as the zip; .finally() runs
ClientFetchSettles ==
    /\ ui.fetching
    /\ job[1].pc \in {"rejected", "ended"}
    /\ Settle(ui, IF job[1].pc = "rejected" THEN "error" ELSE "ready")
    /\ UNCHANGED <<sseClients, job, wire, build>>

\* evtSource "done" listener: evtSource.close()
ClientDoneEvent ==
    /\ ~conn[1].cclosed
    /\ \E k \in DOMAIN wire : wire[k].type = "done" /\ wire[k].conn = 1
    /\ conn' = [conn EXCEPT ![1].cclosed = TRUE]
    /\ UNCHANGED <<sseClients, job, wire, build, ui>>

\* loadBtn.onclick up to its await: the button is never disabled, so a click
\* is possible at any time; ui.loads counts the catalog requests in flight
ClientLoad(filled) ==
    /\ ui.loads < MaxLoads
    /\ ui' = IF ~filled THEN ui                  \* alert(...); return
             ELSE [ui EXCEPT !.statusP = "fetching", !.downloadBtnDisabled = TRUE,
                             !.cancelBtnDisabled = TRUE, !.loads = @ + 1]
    /\ UNCHANGED <<sseClients, conn, job, wire, build>>

\* loadBtn.onclick after its await: the try block's end, or the catch
ClientLoadSettles(ok) ==
    /\ ui.loads > 0
    /\ ui' = IF ok THEN [ui EXCEPT !.loads = @ - 1, !.downloadBtnDisabled = FALSE,
                                   !.statusP = "found"]
             ELSE [ui EXCEPT !.loads = @ - 1, !.statusP = "error"]
    /\ UNCHANGED <<sseClients, conn, job, wire, build>>

NextClient ==
    \/ \E sel \in ClientSelections : ClientDownload(sel)
    \/ \E filled \in BOOLEAN : ClientLoad(filled)
    \/ \E ok \in BOOLEAN : ClientLoadSettles(ok)
    \/ ClientCancel
    \/ ClientFetchSettles
    \/ ClientDoneEvent
    \/ EventsGet(1)
    \/ EventsClose(1)
    \/ PostDownload(1)
    \/ \E o \in Outcomes : ListingResponse(1, o)
    \/ \E o \in Outcomes : SubResponse(1, o)
    \/ \E o \in Outcomes : MetaResponse(1, o)
    \/ \E o \in Outcomes : StreamResponse(1, o)
    \/ ArchiveEnd(1)
    \/ ResClose(1)

SpecClient == Init /\ [][NextClient]_vars

\* ================================================= the catalog build
CourseIds == {1, 2}

\* the enrollment pages the upstream can serve: 1..MaxPages pages of up to
\* MaxPerPage records {course_id}
EnrollPages ==
    {ps \in SeqsUpTo(SeqsUpTo(CourseIds, MaxPerPage), MaxPages) : Len(ps) >= 1}

\* what one course-metadata call can answer; status 0 is fetch() rejecting
MetaAnswers ==
    {[status |-> 200, published |-> TRUE], [status |-> 200, published |-> FALSE],
     [status |-> 403, published |-> FALSE], [status |-> 404, published |-> FALSE],
     [status |-> 500, published |-> FALSE], [status |-> 0, published |-> FALSE]}

\* the Link header of page k of n: <url>; rel="..." entries
LinkHeader(k, n) ==
    IF n = 1 THEN <<>>
    ELSE <<[urlPart |-> <<"<", k, ">">>, relPart |-> "current"]>>
         \o (IF k < n THEN <<[urlPart |-> <<"<", k + 1, ">">>, relPart |-> "next"]>> ELSE <<>>)
         \o <<[urlPart |-> <<"<", 1, ">">>, relPart |-> "first"],
              [urlPart |-> <<"<", n, ">">>, relPart |-> "last"]>>

\* a getNextPage that looks at the first part of the header only
getNextPageFirstPart(linkHeader) ==
    IF linkHeader # <<>> /\ Head(linkHeader).relPart = "next"
    THEN Head(linkHeader).urlPart[2]
    ELSE 0

\* function getNextPage(linkHeader): 0 stands for null
RECURSIVE getNextPage(_)
getNextPage(linkHeader) ==
    IF linkHeader = <<>> THEN 0
    ELSE IF Head(linkHeader).relPart = "next"
         THEN SubSeq(Head(linkHeader).urlPart, 2, Len(Head(linkHeader).urlPart) - 1)[1]
         ELSE getNextPage(Tail(linkHeader))

InSeq(x, s) == \E k \in DOMAIN s : s[k] = x

\* a uniqueIds that keeps every enrollment's id
DedupeNone(ids) == ids

\* [...new Set(ids)]: first occurrences, in order
RECURSIVE Dedupe(_)
Dedupe(ids) ==
    IF ids = <<>> THEN <<>>
    ELSE LET front == Dedupe(SubSeq(ids, 1, Len(ids) - 1))
             x == ids[Len(ids)]
         IN  IF InSeq(x, front) THEN front ELSE Append(front, x)

\* cr.ok
ResponseOk(status) == status \in 200..299

\* if (cr.status === 403 || cr.status === 404) continue
SilentlySkipped(status) == status = 403 \/ status = 404

InitCatalog ==
    /\ InitDownload
    /\ \E ps \in EnrollPages : build = [IdleBuild EXCEPT !.pages = ps]

\* app.get("/api/courses") calls fetchAllCourses, which issues the first
\* enrollment request
CoursesGet ==
    /\ build.pc = "idle"
    /\ build' = [build EXCEPT !.pc = "enroll", !.url = 1]
    /\ UNCHANGED <<sseClients, conn, job, wire, ui>>

\* the for-loop of step 3 moves to index k: the next metadata fetch is issued,
\* or the loop is over and res.json(courses) answers
ToCourse(b, k) ==
    IF k <= Len(b.uniqueIds)
    THEN [b EXCEPT !.pc = "meta", !.k = k, !.metaFetches = Append(@, b.uniqueIds[k])]
    ELSE [b EXCEPT !.pc = "done", !.k = k, !.resp = 200]

\* one enrollment page answers (while (next) { ... })
EnrollResponse(ok) ==
    /\ build.pc = "enroll"
    /\ IF ~ok
       THEN build' = [build EXCEPT !.pc = "failed", !.resp = 500]
       ELSE LET all == build.enrollments \o build.pages[build.url]
                next == getNextPage(LinkHeader(build.url, Len(build.pages)))
            IN  IF next # 0
                THEN build' = [build EXCEPT !.enrollments = all, !.url = next]
                ELSE build' = ToCourse([build EXCEPT !.enrollments = all, !.url = 0,
                                               !.uniqueIds = Dedupe(all)], 1)
    /\ UNCHANGED <<sseClients, conn, job, wire, ui>>

\* a handler in which a 403/404 ends the loop instead of continuing it
CourseMetaResponseBreaks(a) ==
    /\ build.pc = "meta"
    /\ LET id == build.uniqueIds[build.k]
           b1 == [build EXCEPT !.metaStatus = Append(@, a.status)]
       IN  IF SilentlySkipped(a.status)
           THEN build' = [b1 EXCEPT !.pc = "done", !.resp = 200]
           ELSE IF ResponseOk(a.status)
           THEN build' = ToCourse([b1 EXCEPT !.courses =
                            Append(@, [id |-> id, published |-> a.published])], build.k + 1)
           ELSE build' = ToCourse([b1 EXCEPT !.warned = Append(@, id)], build.k + 1)
    /\ UNCHANGED <<sseClients, conn, job, wire, ui>>

\* a handler in which the thrown error leaves fetchAllCourses
CourseMetaResponseAborts(a) ==
    /\ build.pc = "meta"
    /\ LET id == build.uniqueIds[build.k]
           b1 == [build EXCEPT !.metaStatus = Append(@, a.status)]
       IN  IF ResponseOk(a.status)
           THEN build' = ToCourse([b1 EXCEPT !.courses =
                            Append(@, [id |-> id, published |-> a.published])], build.k + 1)
           ELSE IF SilentlySkipped(a.status)
           THEN build' = ToCourse(b1, build.k + 1)
           ELSE build' = [b1 EXCEPT !.pc = "failed", !.resp = 500]
    /\ UNCHANGED <<sseClients, conn, job, wire, ui>>

\* one course-metadata call answers (the body of for (const id of uniqueIds))
CourseMetaResponse(a) ==
    /\ build.pc = "meta"
    /\ LET id == build.uniqueIds[build.k]
           b1 == [build EXCEPT !.metaStatus = Append(@, a.status)]
       IN  IF ResponseOk(a.status)
           THEN build' = ToCourse([b1 EXCEPT !.courses =
                            Append(@, [id |-> id, published |-> a.published])], build.k + 1)
           ELSE IF SilentlySkipped(a.status)
           THEN build' = ToCourse(b1, build.k + 1)                \* continue
           ELSE build' = ToCourse([b1 EXCEPT !.warned = Append(@, id)],
                                  build.k + 1)                    \* throw, catch, console.warn
    /\ UNCHANGED <<sseClients, conn, job, wire, ui>>

NextCatalog ==
    \/ CoursesGet
    \/ \E ok \in BOOLEAN : EnrollResponse(ok)
    \/ \E a \in MetaAnswers : CourseMetaResponse(a)

SpecCatalog == InitCatalog /\ [][NextCatalog]_vars

\* ================================= two connections and two download jobs
PairReqs == {1, 2}

\* the selections of the paired jobs: syllabus units of course 2, whose
\* syllabus has no attachment (one upstream call per unit)
PairSelections ==
    {sel \in Selections : /\ Total(sel) >= 1
                          /\ Total(sel) = Len(sel.syllabus)
                          /\ \A k \in DOMAIN sel.syllabus : sel.syllabus[k] = 2}

InitPair ==
    /\ sseClients = [id \in JobIds |-> 0]
    /\ conn = [c \in Conns |-> IdleConn]
    /\ job = [r \in PairReqs |-> IdleJob]
    /\ wire = <<>>
    /\ ui = IdleUi
    /\ build = IdleBuild

\* the first connection's id is called "a"; the second connection and the
\* jobs use either id
NextPair ==
    \/ \E c \in Conns : \E id \in (IF c = 1 THEN {"a"} ELSE JobIds) : SendEvents(c, id)
    \/ \E c \in Conns : EventsGet(c)
    \/ \E c \in Conns : ClientCloseEvents(c)
    \/ \E c \in Conns : EventsClose(c)
    \/ \E r \in PairReqs, id \in JobIds, sel \in PairSelections :
          /\ \A q \in PairReqs : q < r => job[q].pc # "unused"
          /\ SendDownload(r, id, sel)
    \/ \E r \in PairReqs : PostDownload(r)
    \/ \E r \in PairReqs : ListingResponse(r, "ok")
    \/ \E r \in PairReqs : ArchiveEnd(r)

SpecPair == InitPair /\ [][NextPair]_vars

\* ================================================================== claims
\* the events job r wrote, in order
Events(r) == LET mine(e) == e.job = r IN SelectSeq(wire, mine)
Progress(r) == LET mine(e) == e.job = r /\ e.type = "progress" IN SelectSeq(wire, mine)
Terminal(r) == LET mine(e) == e.job = r /\ e.type = "done" IN SelectSeq(wire, mine)
Handled(r) == job[r].pc \notin {"unused", "sent"}

\* C1: a failed top-level listing call of a unit never aborts the job (it is
\* caught, the unit is still counted and the later units still run).
C1_ListingFailureCaught ==
    \A r \in Reqs : job[r].threwAt # "listing"

\* C2: a failure to resolve a single item (a file's metadata or byte stream, a
\* page's attachment list, an assignment's submission) never aborts the job:
\* the item is skipped and the job goes on to finalize.
C2_ItemFailureSkipped ==
    \A r \in Reqs : job[r].threwAt \notin {"sub", "meta", "stream"}

\* C4: once the download connection of a job was aborted and has closed, the
\* server issues no further upstream fetch for that job.
C4_NoFetchAfterAbort ==
    [][\A r \in Reqs : job[r].resClosed => job'[r].nfetch = job[r].nfetch]_vars

\* C5: when the client cancels a download that the server is processing and
\* whose units are not all processed yet (ui.cancelEarly), no terminal event is ever written for that job, whatever the order of the
\* client's abort, its channel close and the server's remaining steps.
C5_NoTerminalAfterCancel ==
    ui.cancelEarly => Terminal(1) = <<>>

\* C6: a POST /download whose job id is missing or has no entry in the
\* registry is answered 400, and such a request issues no upstream fetch,
\* starts no archive and writes no event to any channel.
C6_InvalidIdRejected ==
    /\ [][\A r \in Reqs :
            (job[r].pc = "sent" /\ job'[r].pc # "sent"
                    /\ (job[r].id = NoId \/ sseClients[job[r].id] = 0))
                => /\ job'[r].pc = "rejected"
                   /\ job'[r].status = 400
                   /\ wire' = wire]_vars
    /\ [](\A r \in Reqs : job[r].pc = "rejected" =>
            /\ job[r].nfetch = 0
            /\ job[r].archive = <<>>
            /\ job[r].status = 400
            /\ Events(r) = <<>>)

\* C6 witness: a request was rejected for an id whose channel had been
\* registered and was closed again before the POST arrived.
C6_Witness ==
    \E r \in Reqs : /\ job[r].pc = "rejected"
                    /\ job[r].id = "a"
                    /\ conn[1].st = "closed" /\ conn[1].id = "a"

AtTotal(r) == {k \in DOMAIN Progress(r) : Progress(r)[k].done = Progress(r)[k].total}
TerminalIsLast(r) ==
    Len(Terminal(r)) = 1 => Events(r)[Len(Events(r))].type = "done"

\* C3 as claimed: done never decreases, total is the number of selected pairs;
\* a job that completes reported done == total exactly once and wrote the
\* terminal event exactly once, after that progress event.
C3_ProgressThenTerminal ==
    \A r \in Reqs :
        LET P == Progress(r)
        IN  /\ \A k \in DOMAIN P : P[k].total = Total(job[r].sel)
            /\ \A k \in DOMAIN P : k > 1 => P[k - 1].done <= P[k].done
            /\ Len(Terminal(r)) <= 1
            /\ Len(Terminal(r)) = 1 => (TerminalIsLast(r) /\ AtTotal(r) # {})
            /\ job[r].pc = "ended" =>
                (Cardinality(AtTotal(r)) = 1 /\ Len(Terminal(r)) = 1)

\* C3 amended: done strictly increases within 1..total, total is the number of
\* selected pairs, done == total is reported at most once and the terminal
\* event at most once, only when the handler's counter has reached total and
\* after every progress event; in a completed job of at least one pair whose
\* terminal event went to the connection registered when the POST was
\* validated, exactly one progress event with done == total precedes it.
C3_ProgressOrder ==
    \A r \in Reqs :
        LET P == Progress(r)
            T == Terminal(r)
        IN  /\ \A k \in DOMAIN P : P[k].total = Total(job[r].sel)
            /\ \A k \in DOMAIN P : P[k].done \in 1..P[k].total
            /\ \A k \in DOMAIN P : k > 1 => P[k - 1].done < P[k].done
            /\ \A k \in DOMAIN P : P[k].done <= job[r].done
            /\ Cardinality(AtTotal(r)) <= 1
            /\ Len(T) <= 1
            /\ Len(T) = 1 => (TerminalIsLast(r) /\ job[r].done = job[r].total
                                /\ job[r].pc = "ended")
            /\ (job[r].pc = "ended" /\ job[r].total >= 1 /\ Len(T) = 1
                    /\ T[1].conn = job[r].chan)
                => (Cardinality(AtTotal(r)) = 1 /\ Len(P) = job[r].total
                        /\ \A k \in DOMAIN P : P[k].conn = job[r].chan)

\* C3 witness: a job of two pairs completed with both progress events and the
\* terminal event written.
C3_Witness ==
    \E r \in Reqs : /\ job[r].pc = "ended"
                    /\ job[r].total = 2
                    /\ Len(Progress(r)) = 2
                    /\ Len(Terminal(r)) = 1

\* ---------------------------------------------------- catalog build claims
\* the ids of the enrollment records read so far, as a set
EnrolledIds == {build.enrollments[k] : k \in DOMAIN build.enrollments}
FirstAt(id) == CHOOSE k \in DOMAIN build.enrollments :
                  /\ build.enrollments[k] = id
                  /\ \A h \in 1..(k - 1) : build.enrollments[h] # id
ServerError(status) == ~ResponseOk(status) /\ status \notin {403, 404}

\* C8 as claimed: a metadata answer with a non-success status other than 403
\* and 404 aborts the build and GET /api/courses answers with an error.
C8_ServerErrorAborts ==
    \A k \in DOMAIN build.metaStatus :
        ServerError(build.metaStatus[k]) =>
            (build.pc = "failed" /\ build.resp = 500 /\ k = Len(build.metaStatus))

\* C8 amended: such an answer does not abort the build: the error is thrown
\* inside the per-course try block, caught and logged, that course is left
\* out, the remaining ids are still fetched and GET /api/courses answers 200;
\* the build fails only while it lists the enrollments.
C8_ServerErrorSkipped ==
    /\ build.pc = "failed" => (build.metaFetches = <<>> /\ build.resp = 500)
    /\ \A k \in DOMAIN build.metaStatus :
          ServerError(build.metaStatus[k]) =>
              /\ build.pc \in {"meta", "done"}
              /\ InSeq(build.uniqueIds[k], build.warned)
              /\ \A c \in DOMAIN build.courses : build.courses[c].id # build.uniqueIds[k]
    /\ build.pc = "done" =>
          /\ build.resp = 200
          /\ Len(build.metaStatus) = Len(build.uniqueIds)

\* C8 witness: a build answered 200 with a course although an earlier
\* metadata call had answered 500.
C8_Witness ==
    /\ build.pc = "done"
    /\ Len(build.metaStatus) = 2
    /\ build.metaStatus[1] = 500
    /\ Len(build.courses) = 1

\* C9: a 403 or 404 leaves out exactly that course: the build goes on, and the
\* returned list holds one record for every other unique id whose fetch
\* succeeded, in first-occurrence order, unpublished courses included.
C9_ForbiddenSkipped ==
    /\ \A k \in DOMAIN build.metaStatus :
          build.metaStatus[k] \in {403, 404} => build.pc \in {"meta", "done"}
    /\ build.pc = "done" =>
          LET okAt == {k \in DOMAIN build.uniqueIds : ResponseOk(build.metaStatus[k])}
          IN  /\ Len(build.metaStatus) = Len(build.uniqueIds)
              /\ Len(build.courses) = Cardinality(okAt)
              /\ \A k \in okAt : \E c \in DOMAIN build.courses :
                     build.courses[c].id = build.uniqueIds[k]
              /\ \A c \in DOMAIN build.courses :
                     /\ build.courses[c].id \in EnrolledIds
                     /\ \A d \in DOMAIN build.courses :
                           c < d => FirstAt(build.courses[c].id) < FirstAt(build.courses[d].id)

\* C9 witness: a finished build whose first id answered 404 and whose second
\* id, met again later in the enrollments, is returned as an unpublished course.
C9_Witness ==
    /\ build.pc = "done"
    /\ Len(build.enrollments) >= 3
    /\ build.metaStatus = <<404, 200>>
    /\ Len(build.courses) = 1
    /\ ~build.courses[1].published

\* C10: the build issues exactly one metadata fetch per distinct course_id of
\* the enrollments: never two for one id, none for an id that is not there.
C10_OneFetchPerId ==
    /\ \A h, k \in DOMAIN build.metaFetches :
          h # k => build.metaFetches[h] # build.metaFetches[k]
    /\ \A k \in DOMAIN build.metaFetches : build.metaFetches[k] \in EnrolledIds
    /\ build.pc = "done" =>
          /\ {build.metaFetches[k] : k \in DOMAIN build.metaFetches} = EnrolledIds
          /\ Len(build.metaFetches) = Cardinality(EnrolledIds)

\* C10 witness: the enrollments [1, 2, 1] were answered by two metadata fetches.
C10_Witness ==
    /\ build.pc = "done"
    /\ build.enrollments = <<1, 2, 1>>
    /\ build.metaFetches = <<1, 2>>

\* the records of pages 1..n of the upstream, in page order
RECURSIVE PagesUpTo(_)
PagesUpTo(n) == IF n = 0 THEN <<>> ELSE PagesUpTo(n - 1) \o build.pages[n]

RECURSIVE SumLen(_)
SumLen(ps) == IF ps = <<>> THEN 0 ELSE Len(Head(ps)) + SumLen(Tail(ps))

Slashes(p) == Cardinality({k \in DOMAIN p : p[k] = "/"})

\* C12: every archive entry path is <courseId>/<CategoryFolder>/<name>[/<name>]
\* (two separators for a syllabus attachment, three for the other categories)
\* and holds no "\": every "/" and "\" of a name was replaced by "_".
C12_PathsSanitized ==
    \A r \in Reqs : \A k \in DOMAIN job[r].archive :
        LET p == job[r].archive[k]
        IN  /\ Slashes(p) = (IF p[3] = "Syllabus" THEN 2 ELSE 3)
            /\ \A j \in DOMAIN p : p[j] # "\\"

\* C13: the page opens the channel before it posts the download, so whenever
\* the server has handled the POST it has handled the channel's GET before
\* (the channel was registered), so that the POST is not answered 400 for an
\* unknown job id.
C13_ChannelRegisteredFirst == Handled(1) => conn[1].st \notin {"unused", "sent"}

\* C14: a registry entry always names a connection that is open on the server
\* and was opened with that job id; the step in which the server sees a
\* connection close, or ends it after the terminal event, leaves no entry
\* under that connection's job id.
C14_RegistryOnlyOpen ==
    /\ [](\A id \in JobIds : sseClients[id] # 0 =>
              /\ conn[sseClients[id]].st = "open"
              /\ conn[sseClients[id]].id = id)
    /\ [][\A c \in Conns :
              conn[c].st = "open" /\ conn'[c].st \in {"closed", "ended"}
                  => sseClients'[conn[c].id] = 0]_vars

\* C14 witness: one channel was ended after its terminal event, the other was
\* closed by its client, and the registry is empty.
C14_Witness ==
    /\ conn[1].st = "closed" /\ conn[1].cclosed
    /\ conn[2].st = "ended"
    /\ Len(wire) > 0 /\ wire[Len(wire)].type = "done" /\ wire[Len(wire)].conn = 2
    /\ \A id \in JobIds : sseClients[id] = 0

\* the order the claim gives: category by category, ids as submitted
RECURSIVE InOrder(_, _)
InOrder(sel, n) ==
    IF n = 0 THEN <<>>
    ELSE InOrder(sel, n - 1) \o Tag(Categories[n], sel[Categories[n]])

Folder(c) ==
    IF c = "modules" THEN "Modules" ELSE IF c = "syllabus" THEN "Syllabus"
    ELSE IF c = "pages" THEN "Pages" ELSE "Submissions"

\* C15: units are processed one after the other in the order modules, syllabus,
\* pages, submissions and, within a category, in submitted order: the unit
\* index only moves from k to k + 1, an archive entry is appended only under
\* the course and folder of the current unit, and the progress event counting
\* k units is labelled with the k-th unit and written in the step that leaves
\* it, hence after the unit's entries; a job's progress events count upwards.
C15_UnitsInOrder ==
    /\ [](\A r \in Reqs : \A k \in DOMAIN Progress(r) :
              /\ Progress(r)[k].done \in DOMAIN InOrder(job[r].sel, 4)
              /\ Progress(r)[k].message = InOrder(job[r].sel, 4)[Progress(r)[k].done]
              /\ k > 1 => Progress(r)[k - 1].done < Progress(r)[k].done)
    /\ [][\A r \in Reqs :
              LET j == job[r]
                  n == job'[r]
              IN  /\ n.u # j.u => n.u = j.u + 1
                  /\ Len(n.archive) > Len(j.archive) =>
                        LET u == InOrder(j.sel, 4)[j.u]
                            e == n.archive[Len(n.archive)]
                        IN  /\ Len(n.archive) = Len(j.archive) + 1
                            /\ e[1] = CourseTok(u.course)
                            /\ e[3] = Folder(u.cat)
                  /\ Len(Progress(r)') > Len(Progress(r)) =>
                        /\ Progress(r)'[Len(Progress(r)')].done = j.u
                        /\ n.u = j.u + 1 \/ n.pc = "finalized"
                        /\ n.archive = j.archive \/ j.pc = "stream"]_vars

\* C15 witness: pages and modules of course 1 were selected; the modules unit
\* was reported first, then the pages unit, after three entries were appended.
C15_Witness ==
    /\ Len(Progress(1)) = 2
    /\ Progress(1)[1].message = [cat |-> "modules", course |-> 1]
    /\ Progress(1)[2].message = [cat |-> "pages", course |-> 1]
    /\ Len(job[1].archive) = 3
    /\ job[1].archive[3][3] = "Pages"

\* the entry names of the exportable items of a listing's groups
EntriesOf(u, groups) ==
    UNION {{EntryName(u.cat, u.course, groups[g], groups[g].items[i]) :
                i \in {h \in DOMAIN groups[g].items : Exportable(u.cat, groups[g].items[h])}} :
           g \in DOMAIN groups}

\* C16: every listing of the job is followed through its rel="next" pages: a
\* job that processed all its units has appended an entry for every exportable
\* item of the later pages of each unit's listing as well.
C16_ListingsPaginated ==
    \A r \in Reqs :
        job[r].pc \in {"finalized", "ended"} =>
            \A k \in DOMAIN Units(job[r].sel) :
                LET u == Units(job[r].sel)[k]
                IN  \A e \in EntriesOf(u, MoreContent(u.cat, u.course)) :
                        InSeq(e, job[r].archive)

\* C17: the archive is finalized only when every selected unit has been
\* counted; the terminal event is written only by a job whose archive is
\* finalized, in the step that also ends and unregisters the channel it was
\* written to; a channel is ended by the server only with a terminal event as
\* the last thing written to it; the terminal event is a job's last event.
C17_EndOfJobOrder ==
    /\ [](\A r \in Reqs :
              /\ job[r].pc \in {"finalized", "ended"} =>
                    /\ job[r].done = Total(job[r].sel)
                    /\ job[r].u \in {0, Len(Units(job[r].sel))}
              /\ Len(Terminal(r)) >= 1 =>
                    /\ job[r].pc = "ended"
                    /\ Len(Terminal(r)) = 1
                    /\ Events(r)[Len(Events(r))].type = "done")
    /\ [][/\ \A r \in Reqs :
                Len(Terminal(r)') > Len(Terminal(r)) =>
                    LET e == wire'[Len(wire')]
                    IN  /\ job[r].pc = "finalized"
                        /\ e.type = "done" /\ e.job = r
                        /\ conn[e.conn].st = "open" /\ conn'[e.conn].st = "ended"
                        /\ sseClients[job[r].id] = e.conn
                        /\ sseClients'[job[r].id] = 0
           /\ \A c \in Conns :
                conn[c].st # "ended" /\ conn'[c].st = "ended" =>
                    /\ Len(wire') = Len(wire) + 1
                    /\ wire'[Len(wire')].type = "done"
                    /\ wire'[Len(wire')].conn = c]_vars

\* C17 witness: a job of two units ended: both were counted, the terminal event
\* is the last event and its channel is ended and unregistered.
C17_Witness ==
    /\ job[1].pc = "ended"
    /\ job[1].done = 2
    /\ Len(Progress(1)) = 2
    /\ Len(wire) = 3 /\ wire[3].type = "done"
    /\ conn[wire[3].conn].st = "ended"
    /\ sseClients[job[1].id] = 0

\* C18: with two jobs under different ids, every event of a job was written
\* to a connection opened with that job's id and carries that job's own total
\* and its own count of units at the time; a step of one job changes neither
\* the other job's counters nor any connection or registry entry of another id.
C18_JobsIsolated ==
    /\ [](job[1].id # job[2].id =>
            \A k \in DOMAIN wire :
                LET e == wire[k]
                IN  /\ conn[e.conn].id = job[e.job].id
                    /\ e.total = Total(job[e.job].sel)
                    /\ e.done <= job[e.job].done
                    /\ \A h \in 1..(k - 1) :
                          (wire[h].job = e.job /\ e.type = "progress") => wire[h].done < e.done)
    /\ [][\A r \in PairReqs :
              (job[1].id # job[2].id /\ job[r].pc \notin {"unused", "sent"}
                   /\ job'[r] # job[r]) =>
                  /\ \A q \in PairReqs \ {r} : job'[q] = job[q]
                  /\ Len(wire') > Len(wire) =>
                        /\ wire'[Len(wire')].job = r
                        /\ wire'[Len(wire')].done = job'[r].done
                        /\ wire'[Len(wire')].total = job[r].total
                  /\ \A c \in Conns : conn[c].id # job[r].id => conn'[c] = conn[c]
                  /\ \A id \in JobIds \ {job[r].id} : sseClients'[id] = sseClients[id]]_vars

\* C18 witness: job 1 (id a, two units) and job 2 (id b, one unit) ran
\* interleaved and both ended with all their events on their own connections.
C18_Witness ==
    /\ job[1].id = "a" /\ job[2].id = "b"
    /\ job[1].pc = "ended" /\ job[2].pc = "ended"
    /\ Len(wire) = 5
    /\ wire[1].job = 1 /\ wire[2].job = 2 /\ wire[3].job = 2 /\ wire[3].type = "done"
    /\ wire[4].job = 1 /\ wire[4].done = 2 /\ wire[5].job = 1
    /\ conn[2].st = "ended" /\ conn[1].st = "ended"

\* C19: the close of a connection removes only that connection's own
\* registration: an entry that names another connection is still there after
\* the step, so an open channel stays registered under its job id.
C19_CloseRemovesOwnEntry ==
    [][\A c \in Conns :
          (conn[c].st \in {"open", "ended"} /\ conn'[c].st = "closed") =>
              \A id \in JobIds :
                  sseClients[id] \notin {0, c} => sseClients'[id] = sseClients[id]]_vars

\* C20: Download and Cancel are never both enabled; while the download
\* request is pending Download is disabled and Cancel is enabled; the step in
\* which the request settles leaves Download enabled, Cancel disabled and the
\* event source closed; a request is only ever issued with a selected pair.
C20_ButtonsExclusive ==
    /\ [](/\ ui.downloadBtnDisabled \/ ui.cancelBtnDisabled
          /\ ui.fetching => (ui.downloadBtnDisabled /\ ~ui.cancelBtnDisabled)
          /\ job[1].pc # "unused" => Total(job[1].sel) > 0)
    /\ [][(ui.fetching /\ ~ui'.fetching) =>
              (~ui'.downloadBtnDisabled /\ ui'.cancelBtnDisabled /\ conn'[1].cclosed)]_vars

====
